---- MODULE Spec2Model ----
(***************************************************************************)
(* State machine of the QuizApp session component.  The repository holds   *)
(* three variants of the same component:                                   *)
(*   "AppTsx"  - src/App.tsx            (multiple choice, validated)       *)
(*   "Part001" - src/unnamed/part_001   (multiple choice, validated)       *)
(*   "Part000" - src/unnamed/part_000   (mixed question types)             *)
(* The variant is fixed in Init and every action follows the code of the   *)
(* variant it runs in.  Strings the code inspects (topic, free-text        *)
(* answers, correctAnswer of the mixed variant) are sequences of           *)
(* one-character strings so that trim() and toLowerCase() are computed.    *)
(* pending holds the requests awaiting the service's response.  lastOp and *)
(* submitted are history variables: the handler that ran last, and whether *)
(* the installed quiz has been submitted since the last reset/generation.  *)
(* The stale field of a request in flight is history too: whether resetApp *)
(* has run since the request was issued.                                   *)
(***************************************************************************)
EXTENDS Integers, Sequences, FiniteSets, TLC

VARIABLES variant, topic, difficulty, count, loading, quiz, error, currentStep, isReviewMode,
          userAnswers, score, pending, lastOp, submitted

sessionVars == <<topic, difficulty, count, loading, quiz, error, currentStep, isReviewMode,
                 userAnswers, score>>
vars == <<variant, topic, difficulty, count, loading, quiz, error, currentStep, isReviewMode,
          userAnswers, score, pending, lastOp, submitted>>

\* ---------------------------------------------------------------- bounds
MaxQuestions == 2
MaxPending == 2

\* ------------------------------------------------------------- variants
Variants == {"AppTsx", "Part001", "Part000"}
McqVariants == {"AppTsx", "Part001"}
MixedVariant == "Part000"

\* ------------------------------------------------------- string helpers
Lower(c) == IF c = "A" THEN "a" ELSE IF c = "B" THEN "b" ELSE c
IsSpace(c) == c = " "

toLowerCase(s) == [i \in 1..Len(s) |-> Lower(s[i])]

RECURSIVE trimStart(_)
trimStart(s) ==
  IF s = <<>> THEN <<>>
  ELSE IF IsSpace(Head(s)) THEN trimStart(Tail(s)) ELSE s

RECURSIVE trimEnd(_)
trimEnd(s) ==
  IF s = <<>> THEN <<>>
  ELSE IF IsSpace(s[Len(s)]) THEN trimEnd(SubSeq(s, 1, Len(s) - 1)) ELSE s

trim(s) == trimEnd(trimStart(s))

Digits == <<"0", "1", "2", "3", "4", "5", "6", "7", "8", "9">>

RECURSIVE toString(_)
toString(n) ==
  IF n < 10 THEN <<Digits[n + 1]>>
  ELSE toString(n \div 10) \o <<Digits[(n % 10) + 1]>>

\* ------------------------------------------------------------ null, data
Null == [isNull |-> TRUE, hasQuestions |-> FALSE, questions |-> <<>>]
NoError == "null"

\* variant of Sentinel that fills with a value an answer can take
SentinelAnswered(v) == IF v \in {"AppTsx", "Part001"} THEN 0 ELSE <<"a">>

\* the unanswered sentinel each variant fills userAnswers with
UnansweredIndex == -1
UnansweredText == <<>>
Sentinel(v) == IF v \in McqVariants THEN UnansweredIndex ELSE UnansweredText

\* new Array(n).fill(x)
ArrayFill(n, x) == [i \in 1..n |-> x]

\* ------------------------------------------------ what the service returns
\* questions a response of the multiple-choice variants may carry: the
\* response schema asks for 4 options and an index, the code checks neither
McqPool ==
  { [type |-> "mcq", nopts |-> 4, correctAnswer |-> 1],
    [type |-> "mcq", nopts |-> 4, correctAnswer |-> 3],
    [type |-> "mcq", nopts |-> 4, correctAnswer |-> 4] }

\* questions a response of the mixed variant may carry
MixedPool ==
  { [type |-> "mcq",   nopts |-> 4, correctAnswer |-> <<"1">>],
    [type |-> "short", nopts |-> 0, correctAnswer |-> <<"A", " ">>],
    [type |-> "blank", nopts |-> 0, correctAnswer |-> <<" ">>] }

QuestionPool(v) == IF v \in McqVariants THEN McqPool ELSE MixedPool

SeqsUpTo(S, n) == UNION { [1..k -> S] : k \in 0..n }

\* JSON.parse results: null, an object without "questions", or an object
\* with a questions array (possibly empty)
ParsedData(v) ==
  { Null, [isNull |-> FALSE, hasQuestions |-> FALSE, questions |-> <<>>] }
  \cup { [isNull |-> FALSE, hasQuestions |-> TRUE, questions |-> qs] :
           qs \in SeqsUpTo(QuestionPool(v), MaxQuestions) }

Responses(v) ==
  { [kind |-> "reject", msg |-> m, data |-> Null] : m \in {"", "service unavailable"} }
  \cup { [kind |-> "noText", msg |-> "", data |-> Null],
         [kind |-> "badJson", msg |-> "Unexpected token", data |-> Null] }
  \cup { [kind |-> "json", msg |-> "", data |-> d] : d \in ParsedData(v) }

\* enum Difficulty
Difficulties == {"Easy", "Medium", "Hard"}

\* positions of the question-count slider the model moves between
Counts == {3, 5}

\* values the topic input may be given
Topics == { <<>>, <<" ">>, <<"a">> }

\* values a free-text answer input may be given
TextValues == { <<>>, <<"a">>, <<" ", "a">>, <<"b">> }

\* ------------------------------------------------------------- messages
MsgNoContent(v) ==
  IF v \in McqVariants
  THEN "AI failed to produce content. Please try a different topic."
  ELSE "AI failed to produce content."
MsgNoQuestions == "No questions generated. Try being more specific with your topic."
MsgFallback(v) ==
  IF v \in McqVariants
  THEN "An error occurred while generating your quiz. Please try again."
  ELSE "Error generating quiz. Please try again."
MsgTypeError == "Cannot read properties of undefined (reading 'length')"

\* err.message || fallback
ErrorText(v, msg) == IF msg = "" THEN MsgFallback(v) ELSE msg

\* ---------------------------------------------------------------- Init
Init ==
  /\ variant \in Variants
  /\ topic = <<>>
  /\ difficulty = "Medium"
  /\ count = 5
  /\ loading = FALSE
  /\ quiz = Null
  /\ error = NoError
  /\ currentStep = "form"
  /\ isReviewMode = FALSE
  /\ userAnswers = <<>>
  /\ score = 0
  /\ pending = <<>>
  /\ lastOp = "init"
  /\ submitted = FALSE

\* ------------------------------------------------------------ form input
\* onChange of the topic input, rendered while currentStep is 'form'
SetTopic(v) ==
  /\ currentStep = "form"
  /\ topic' = v
  /\ lastOp' = "setTopic"
  /\ UNCHANGED <<variant, difficulty, count, loading, quiz, error, currentStep, isReviewMode,
                 userAnswers, score, pending, submitted>>

\* onClick of a difficulty button, rendered while currentStep is 'form'
SetDifficulty(d) ==
  /\ currentStep = "form"
  /\ difficulty' = d
  /\ lastOp' = "setDifficulty"
  /\ UNCHANGED <<variant, topic, count, loading, quiz, error, currentStep,
                 isReviewMode, userAnswers, score, pending, submitted>>

\* onChange of the count slider, rendered while currentStep is 'form'
SetCount(n) ==
  /\ currentStep = "form"
  /\ count' = n
  /\ lastOp' = "setCount"
  /\ UNCHANGED <<variant, topic, difficulty, loading, quiz, error, currentStep,
                 isReviewMode, userAnswers, score, pending, submitted>>

\* ------------------------------------------------------- handleGenerate
\* variant of the check below that tests the raw topic (no trim)
TopicRejectedRawOnly(t) == t = <<>>

\* if (!topic.trim()) return;
TopicRejected(t) == trim(t) = <<>>

\* variant of GenerateDisabled for a generate button that is never disabled
GenerateNeverDisabled(l) == FALSE

\* disabled={loading} of the form's submit button
GenerateDisabled(l) == l

\* variant of ErrorOnGenerate that omits setError(null)
ErrorKeptOnGenerate(e) == e

\* setError(null) at the start of handleGenerate
ErrorOnGenerate(e) == NoError

\* variant of ReviewOnGenerate that omits setIsReviewMode(false)
ReviewKeptOnGenerate(r) == r

\* setIsReviewMode(false) at the start of handleGenerate
ReviewOnGenerate(r) == FALSE

\* the request handleGenerate sends: the component builds the client with
\* process.env.API_KEY and calls the service itself
NewRequest(t, d, n) ==
  [topic |-> t, difficulty |-> d, count |-> n,
   issuedBy |-> "client", carriesApiKey |-> TRUE, stale |-> FALSE]

\* the part of handleGenerate that runs before the await; the form is
\* rendered while currentStep is 'form' and its submit button is disabled
\* while loading
HandleGenerate ==
  /\ currentStep = "form"
  /\ ~GenerateDisabled(loading)
  /\ lastOp' = "handleGenerate"
  /\ IF TopicRejected(topic)
     THEN UNCHANGED <<variant, difficulty, count, topic, loading, quiz, error, currentStep,
                      isReviewMode, userAnswers, score, pending, submitted>>
     ELSE /\ Len(pending) < MaxPending
          /\ loading' = TRUE
          /\ error' = ErrorOnGenerate(error)
          /\ quiz' = Null
          /\ isReviewMode' = ReviewOnGenerate(isReviewMode)
          /\ pending' = Append(pending, NewRequest(topic, difficulty, count))
          /\ submitted' = FALSE
          /\ UNCHANGED <<variant, difficulty, count, topic, currentStep, userAnswers, score>>

\* variant of Thrown without the check of data.questions in the validated
\* variants
ThrownUnvalidated(v, r) ==
  CASE r.kind = "reject"  -> IF r.msg = "" THEN "Error generating quiz." ELSE r.msg
    [] r.kind = "noText"  -> "AI failed to produce content."
    [] r.kind = "badJson" -> r.msg
    [] OTHER -> IF r.data.isNull THEN "Cannot read properties of null" ELSE ""

\* what the try block of handleGenerate throws for response r, "" when it
\* runs to its end
Thrown(v, r) ==
  CASE r.kind = "reject"  -> ErrorText(v, r.msg)
    [] r.kind = "noText"  -> MsgNoContent(v)
    [] r.kind = "badJson" -> ErrorText(v, r.msg)
    [] OTHER ->
         IF v \in McqVariants
         THEN IF r.data.isNull THEN MsgTypeError
              ELSE IF ~r.data.hasQuestions \/ Len(r.data.questions) = 0
                   THEN MsgNoQuestions
                   ELSE ""
         ELSE IF r.data.isNull \/ ~r.data.hasQuestions THEN MsgTypeError
              ELSE ""

\* whether setQuiz(data) is reached for response r: the validated variants
\* call it after the checks, the mixed variant right after JSON.parse
ReachesSetQuiz(v, r) ==
  /\ r.kind = "json"
  /\ IF v \in McqVariants THEN Thrown(v, r) = "" ELSE TRUE

\* variant of RemoveAt that leaves the request in flight (a retry)
RemoveAtRetry(s, k) == s

\* the awaited request leaves the set of requests in flight
RemoveAt(s, k) == SubSeq(s, 1, k - 1) \o SubSeq(s, k + 1, Len(s))

\* the continuation of handleGenerate after the await, for the k-th request
\* in flight and response r
GenerateCompletes(k, r) ==
  /\ k \in 1..Len(pending)
  /\ pending' = RemoveAt(pending, k)
  /\ quiz' = IF ReachesSetQuiz(variant, r) THEN r.data ELSE quiz
  /\ IF Thrown(variant, r) = ""
     THEN /\ userAnswers' = ArrayFill(Len(r.data.questions), Sentinel(variant))
          /\ currentStep' = "quiz"
          /\ error' = error
          /\ lastOp' = "generateOk"
     ELSE /\ error' = Thrown(variant, r)
          /\ lastOp' = "generateFail"
          /\ UNCHANGED <<userAnswers, currentStep>>
  /\ loading' = FALSE
  /\ UNCHANGED <<variant, difficulty, count, topic, isReviewMode, score, submitted>>

\* ------------------------------------------------------ answer recording
\* the option buttons / text input a question card renders
AnswerInputs(v, q) ==
  IF v \in McqVariants THEN 0..(q.nopts - 1)
  ELSE IF q.type = "mcq" THEN { toString(o) : o \in 0..(q.nopts - 1) }
       ELSE TextValues

\* variant of RecordAnswer that writes the value into every slot
RecordAnswerEverySlot(review, answers, i, val) ==
  IF review THEN answers ELSE [j \in 1..Len(answers) |-> val]

\* variant of RecordAnswer without the isReviewMode early return
RecordAnswerUnguarded(review, answers, i, val) == [answers EXCEPT ![i] = val]

\* body of handleAnswerSelect / handleAnswerChange: the new userAnswers
RecordAnswer(review, answers, i, val) ==
  IF review THEN answers ELSE [answers EXCEPT ![i] = val]

\* handleAnswerSelect(i, val) / handleAnswerChange(i, val), reachable from
\* the question cards, which are rendered while currentStep is 'quiz' and
\* a quiz is set.  The controls also carry disabled={isReviewMode}; the
\* handler is modelled as callable there so that its own guard is what
\* protects the answers.
HandleAnswer(i, val) ==
  /\ currentStep = "quiz"
  /\ quiz # Null
  /\ i \in 1..Len(quiz.questions)
  /\ val \in AnswerInputs(variant, quiz.questions[i])
  /\ userAnswers' = RecordAnswer(isReviewMode, userAnswers, i, val)
  /\ lastOp' = "answer"
  /\ UNCHANGED <<variant, difficulty, count, topic, loading, quiz, error, currentStep,
                 isReviewMode, score, pending, submitted>>

\* ------------------------------------------------------------- scoring
\* variant of isCorrect that only trims (case-sensitive comparison)
isCorrectCaseSensitive(question, userAns) ==
  trim(question.correctAnswer) = trim(userAns)

\* part_000 isCorrect(question, userAns)
isCorrect(question, userAns) ==
  LET target == trim(toLowerCase(question.correctAnswer))
      actual == trim(toLowerCase(userAns))
  IN  target = actual

\* variant of CountsCorrect that credits every answered multiple-choice
\* question
CountsCorrectAnyAnswered(v, q, ans) ==
  IF v \in {"AppTsx", "Part001"} THEN ans # -1
  ELSE trim(toLowerCase(q.correctAnswer)) = trim(toLowerCase(ans))

\* the comparison in the forEach of handleSubmitQuiz
CountsCorrect(v, q, ans) ==
  IF v \in McqVariants THEN ans = q.correctAnswer ELSE isCorrect(q, ans)

\* quiz.questions.forEach((q, idx) => { if (...) currentScore++ })
RECURSIVE forEachScore(_, _, _, _, _)
\* variant of forEachScore whose loop stops one question early
forEachScoreSkipsLast(v, questions, answers, idx, currentScore) ==
  currentScore + Cardinality({ i \in idx..(Len(questions) - 1) :
                                 CountsCorrect(v, questions[i], answers[i]) })

forEachScore(v, questions, answers, idx, currentScore) ==
  IF idx > Len(questions) THEN currentScore
  ELSE forEachScore(v, questions, answers, idx + 1,
         IF CountsCorrect(v, questions[idx], answers[idx])
         THEN currentScore + 1 ELSE currentScore)

\* variant of SubmitDisabled for a submit button that is never disabled
SubmitNeverDisabled(v, answers) == FALSE

\* disabled attribute of the submit button
SubmitDisabled(v, answers) ==
  CASE v = "AppTsx"  -> \E i \in 1..Len(answers) : answers[i] = UnansweredIndex
    [] v = "Part001" -> ~(\A i \in 1..Len(answers) : answers[i] # UnansweredIndex)
    [] OTHER         -> FALSE

\* variant of HandleSubmitQuiz that empties the question list it scored
HandleSubmitQuizConsumesQuiz ==
  /\ currentStep = "quiz"
  /\ quiz # Null
  /\ ~isReviewMode
  /\ score' = 0
  /\ quiz' = [quiz EXCEPT !.questions = <<>>]
  /\ currentStep' = "result"
  /\ isReviewMode' = FALSE
  /\ lastOp' = "submit"
  /\ submitted' = TRUE
  /\ UNCHANGED <<variant, difficulty, count, topic, loading, error,
                 userAnswers, pending>>

\* variant of HandleSubmitQuiz that also calls setUserAnswers([])
HandleSubmitQuizClearsAnswers ==
  /\ currentStep = "quiz"
  /\ quiz # Null
  /\ ~isReviewMode
  /\ score' = 0
  /\ userAnswers' = <<>>
  /\ currentStep' = "result"
  /\ isReviewMode' = FALSE
  /\ lastOp' = "submit"
  /\ submitted' = TRUE
  /\ UNCHANGED <<variant, difficulty, count, topic, loading, quiz, error,
                 pending>>

\* handleSubmitQuiz, behind the submit button of the quiz view, which is
\* the footer's action only while isReviewMode is false
HandleSubmitQuiz ==
  /\ currentStep = "quiz"
  /\ quiz # Null
  /\ ~isReviewMode
  /\ ~SubmitDisabled(variant, userAnswers)
  /\ score' = forEachScore(variant, quiz.questions, userAnswers, 1, 0)
  /\ currentStep' = "result"
  /\ isReviewMode' = IF variant \in McqVariants THEN FALSE ELSE isReviewMode
  /\ lastOp' = "submit"
  /\ submitted' = TRUE
  /\ UNCHANGED <<variant, difficulty, count, topic, loading, quiz, error,
                 userAnswers, pending>>

\* ------------------------------------------------------- review / reset
\* variant of EnterReviewMode that omits setIsReviewMode(true)
EnterReviewModeNoFlag ==
  /\ currentStep = "result"
  /\ quiz # Null
  /\ currentStep' = "quiz"
  /\ lastOp' = "review"
  /\ UNCHANGED <<variant, difficulty, count, topic, loading, quiz, error,
                 isReviewMode, userAnswers, score, pending, submitted>>

\* enterReviewMode, behind the review button of the result view
EnterReviewMode ==
  /\ currentStep = "result"
  /\ quiz # Null
  /\ isReviewMode' = TRUE
  /\ currentStep' = "quiz"
  /\ lastOp' = "review"
  /\ UNCHANGED <<variant, difficulty, count, topic, loading, quiz, error, userAnswers, score,
                 pending, submitted>>

\* src/App.tsx only: in review mode the footer button runs
\* () => setCurrentStep('result')
BackToResults ==
  /\ variant = "AppTsx"
  /\ currentStep = "quiz"
  /\ quiz # Null
  /\ isReviewMode
  /\ currentStep' = "result"
  /\ lastOp' = "back"
  /\ UNCHANGED <<variant, difficulty, count, topic, loading, quiz, error, isReviewMode,
                 userAnswers, score, pending, submitted>>

\* what resetApp leaves in score and isReviewMode: part_000 sets neither
ResetScore(v, s) == IF v \in McqVariants THEN 0 ELSE s
ResetReview(v, r) == IF v \in McqVariants THEN FALSE ELSE r

\* variant of LoadingAfterReset for a resetApp that calls setLoading(false)
LoadingClearedByReset(l) == FALSE

\* resetApp has no setLoading call
LoadingAfterReset(l) == l

\* requests in flight are not cancelled by resetApp; the model only notes
\* that they were issued before it
MarkStale(reqs) == [k \in 1..Len(reqs) |-> [reqs[k] EXCEPT !.stale = TRUE]]

\* resetApp, behind the header logo (always rendered) and the quit / new
\* challenge buttons
ResetApp ==
  /\ currentStep' = "form"
  /\ quiz' = Null
  /\ userAnswers' = <<>>
  /\ score' = ResetScore(variant, score)
  /\ error' = NoError
  /\ topic' = <<>>
  /\ isReviewMode' = ResetReview(variant, isReviewMode)
  /\ lastOp' = "reset"
  /\ submitted' = FALSE
  /\ loading' = LoadingAfterReset(loading)
  /\ pending' = MarkStale(pending)
  /\ UNCHANGED <<variant, difficulty, count>>

\* ----------------------------------------------------------------- Next
Next ==
  \/ \E v \in Topics : SetTopic(v)
  \/ \E d \in Difficulties : SetDifficulty(d)
  \/ \E n \in Counts : SetCount(n)
  \/ HandleGenerate
  \/ \E k \in 1..MaxPending : \E r \in Responses(variant) : GenerateCompletes(k, r)
  \/ \E i \in 1..MaxQuestions :
       \E val \in UNION { AnswerInputs(variant, q) : q \in QuestionPool(variant) } :
         HandleAnswer(i, val)
  \/ HandleSubmitQuiz
  \/ EnterReviewMode
  \/ BackToResults
  \/ ResetApp

Spec == Init /\ [][Next]_vars

TypeOK ==
  /\ variant \in Variants
  /\ topic \in Topics
  /\ difficulty \in Difficulties
  /\ count \in Counts
  /\ loading \in BOOLEAN
  /\ currentStep \in {"form", "quiz", "result"}
  /\ isReviewMode \in BOOLEAN
  /\ score \in 0..MaxQuestions
  /\ Len(pending) <= MaxPending
  /\ submitted \in BOOLEAN

\* ------------------------------------------------------ result screen
\* variant of RoundedPercent that truncates instead of rounding
PercentTruncated(s, n) == (100 * s) \div n

\* Math.round((score / quiz.questions.length) * 100) for n >= 1; Math.round
\* rounds halves up, which is floor(x + 1/2).  For n = 0 the expression is
\* NaN and is not given a value here.
RoundedPercent(s, n) == (200 * s + n) \div (2 * n)

\* --------------------------------------------- the worked scoring example
\* A second specification for the scoring arithmetic of the mixed variant:
\* it starts in the state handleGenerate leaves after a successful
\* three-question multiple-choice response and applies the answer and
\* submit handlers.
McqQuestion(c) == [type |-> "mcq", nopts |-> 4, correctAnswer |-> toString(c)]

ExampleQuizzes ==
  { [isNull |-> FALSE, hasQuestions |-> TRUE,
     questions |-> <<McqQuestion(a), McqQuestion(b), McqQuestion(c)>>] :
       a \in 0..3, b \in 0..3, c \in 0..3 }

RomanEmpire == <<"R", "o", "m", "a", "n", " ", "E", "m", "p", "i", "r", "e">>

InitExample ==
  /\ variant = MixedVariant
  /\ topic = RomanEmpire
  /\ difficulty = "Medium"
  /\ count = 3
  /\ loading = FALSE
  /\ quiz \in ExampleQuizzes
  /\ error = NoError
  /\ currentStep = "quiz"
  /\ isReviewMode = FALSE
  /\ userAnswers = ArrayFill(Len(quiz.questions), Sentinel(variant))
  /\ score = 0
  /\ pending = <<>>
  /\ lastOp = "generateOk"
  /\ submitted = FALSE

NextExample ==
  \/ \E i \in 1..Len(quiz.questions) :
       \E val \in AnswerInputs(variant, quiz.questions[i]) : HandleAnswer(i, val)
  \/ HandleSubmitQuiz

SpecExample == InitExample /\ [][NextExample]_vars

\* ===================================================================
\* Properties
\* ===================================================================
AllSpaces(s) == \A i \in 1..Len(s) : s[i] = " "

AllUnanswered ==
  \A i \in 1..Len(userAnswers) :
    IF variant \in McqVariants THEN userAnswers[i] = -1
    ELSE userAnswers[i] = <<>>

\* C1: after a generation request fails the session is in form-entry with
\* the error message set and no quiz installed (quiz null) - stated as
\* claimed for every variant
C1_FailedGenerationInstallsNoQuiz ==
  lastOp = "generateFail" =>
    /\ currentStep = "form"
    /\ error # NoError
    /\ quiz = Null

\* C2: handleGenerate on an empty or whitespace-only topic issues no
\* request and leaves every session variable unchanged
C2_BlankTopicGenerateIsNoop ==
  [][ (lastOp' = "handleGenerate" /\ AllSpaces(topic))
        => (UNCHANGED sessionVars /\ pending' = pending) ]_vars

\* C2 witness: handleGenerate has run on a whitespace-only, non-empty topic
\* and nothing is in flight
C2_Witness ==
  /\ lastOp = "handleGenerate"
  /\ topic # <<>>
  /\ AllSpaces(topic)
  /\ pending = <<>>
  /\ ~loading

\* C3: right after a successful generation userAnswers has one entry per
\* returned question and every entry is the unanswered sentinel (-1 in the
\* multiple-choice variants, '' in the mixed variant)
C3_FreshAnswersAfterGeneration ==
  lastOp = "generateOk" =>
    /\ quiz # Null
    /\ Len(userAnswers) = Len(quiz.questions)
    /\ \A i \in 1..Len(userAnswers) :
         IF variant \in McqVariants THEN userAnswers[i] = -1
         ELSE userAnswers[i] = <<>>

\* C3 witness: a generation has just succeeded with at least two questions
C3_Witness ==
  /\ lastOp = "generateOk"
  /\ Len(quiz.questions) >= 2
  /\ Len(userAnswers) >= 2

\* C4: reset from any reachable state leaves the session in its
\* application-start configuration - stated as claimed for every variant
C4_ResetRestoresStartConfiguration ==
  lastOp = "reset" =>
    /\ currentStep = "form"
    /\ quiz = Null
    /\ userAnswers = <<>>
    /\ score = 0
    /\ error = NoError
    /\ ~isReviewMode
    /\ ~loading

\* C5: recording an answer while the review flag is set changes none of
\* userAnswers, score, phase and quiz
C5_AnswerInReviewIsNoop ==
  [][ (isReviewMode /\ lastOp' = "answer")
        => UNCHANGED <<userAnswers, score, currentStep, quiz>> ]_vars

\* C5 witness: the answer handler has run while the review flag was set on
\* a quiz with questions
C5_Witness ==
  /\ lastOp = "answer"
  /\ isReviewMode
  /\ currentStep = "quiz"
  /\ Len(quiz.questions) >= 1

\* C6: once the quiz is submitted, userAnswers and score do not change
\* until the next reset or generation, whatever review, back-to-results
\* and answer-recording actions are performed
C6_AnswersFrozenAfterSubmit ==
  [][ (submitted /\ submitted')
        => (userAnswers' = userAnswers /\ score' = score) ]_vars

\* C6 witness: after submission the user went to review, back to results
\* or tried to record an answer
C6_Witness ==
  /\ submitted
  /\ lastOp \in {"answer", "back"}
  /\ Len(userAnswers) >= 1

\* C7: in the multiple-choice variants submit sets score to the number of
\* indices whose answer equals the question's correctAnswer (so all answers
\* right gives questions.length)
C7_McqScoreIsMatchCount ==
  (lastOp = "submit" /\ variant \in McqVariants) =>
    /\ score = Cardinality({ i \in 1..Len(quiz.questions) :
                               userAnswers[i] = quiz.questions[i].correctAnswer })
    /\ (\A i \in 1..Len(quiz.questions) :
          userAnswers[i] = quiz.questions[i].correctAnswer)
         => score = Len(quiz.questions)

\* C7 witness: a multiple-choice quiz submitted with one right and one
\* wrong answer
C7_Witness ==
  /\ lastOp = "submit"
  /\ variant \in McqVariants
  /\ Len(quiz.questions) = 2
  /\ score = 1

\* the part of s between its first and its last non-space character
Core(s) ==
  LET ns == { i \in 1..Len(s) : s[i] # " " }
  IN  IF ns = {} THEN <<>>
      ELSE SubSeq(s, CHOOSE i \in ns : \A j \in ns : i <= j,
                     CHOOSE i \in ns : \A j \in ns : i >= j)

SameLetter(x, y) == x = y \/ {x, y} = {"a", "A"} \/ {x, y} = {"b", "B"}

EqualIgnoringCaseAndOuterSpace(a, b) ==
  /\ Len(Core(a)) = Len(Core(b))
  /\ \A i \in 1..Len(Core(a)) : SameLetter(Core(a)[i], Core(b)[i])

\* C8: in the mixed variant a question counts as correct iff answer and
\* correctAnswer are equal up to letter case and leading/trailing
\* whitespace, and the score is the number of such questions
C8_MixedScoreIsCaseTrimMatchCount ==
  (lastOp = "submit" /\ variant = MixedVariant) =>
    score = Cardinality({ i \in 1..Len(quiz.questions) :
              EqualIgnoringCaseAndOuterSpace(userAnswers[i],
                                             quiz.questions[i].correctAnswer) })

\* C8 witness: a mixed quiz submitted where an answer that differs from
\* correctAnswer in case and spacing was counted, and another was not
C8_Witness ==
  /\ lastOp = "submit"
  /\ variant = MixedVariant
  /\ Len(quiz.questions) = 2
  /\ score = 1
  /\ \E i \in 1..2 :
       /\ userAnswers[i] # quiz.questions[i].correctAnswer
       /\ toLowerCase(userAnswers[i]) # toLowerCase(quiz.questions[i].correctAnswer)
       /\ trim(userAnswers[i]) # trim(quiz.questions[i].correctAnswer)
       /\ isCorrect(quiz.questions[i], userAnswers[i])

\* C9: a submission with every answer still the unanswered sentinel only
\* happens in the mixed variant (the others gate submit) and scores 0
C9_UnansweredSubmissionScoresZero ==
  (lastOp = "submit" /\ AllUnanswered) =>
    (variant = MixedVariant /\ score = 0)

\* C10: in the multiple-choice variants no entry of userAnswers is -1 in
\* the result phase or in review mode, because submit is disabled while
\* one is
C10_NoUnansweredAfterSubmit ==
  ( /\ variant \in McqVariants
    /\ (currentStep = "result" \/ (currentStep = "quiz" /\ isReviewMode)) )
    => \A i \in 1..Len(userAnswers) : userAnswers[i] # -1

\* C10 witness: a multiple-choice quiz with questions has reached the
\* result phase
C10_Witness ==
  /\ variant \in McqVariants
  /\ currentStep = "result"
  /\ lastOp = "submit"
  /\ Len(userAnswers) >= 2

\* C11: the phase changes only along form -> quiz at a successful
\* generation, quiz (not in review) -> result by submit, result -> quiz by
\* review with the review flag set, quiz in review -> result, and any ->
\* form by reset
C11_PhaseChangesOnlyAlongTransitions ==
  [][ currentStep' # currentStep =>
        \/ /\ currentStep = "form" /\ currentStep' = "quiz"
           /\ lastOp' = "generateOk"
        \/ /\ currentStep = "quiz" /\ ~isReviewMode /\ currentStep' = "result"
           /\ lastOp' = "submit"
        \/ /\ currentStep = "result" /\ currentStep' = "quiz"
           /\ lastOp' = "review" /\ isReviewMode'
        \/ /\ currentStep = "quiz" /\ isReviewMode /\ currentStep' = "result"
        \/ /\ currentStep' = "form" /\ lastOp' = "reset" ]_vars

\* C11 witness: the session went through review and came back to the
\* result phase
C11_Witness ==
  /\ currentStep = "result"
  /\ lastOp = "back"
  /\ isReviewMode
  /\ submitted

\* C12: in every variant, whenever the session is in quiz-taking with the
\* review flag set, some action that moves the phase to result is enabled
C12_ReviewCanReturnToResult ==
  (currentStep = "quiz" /\ isReviewMode /\ quiz # Null)
    => ENABLED (Next /\ currentStep' = "result")

\* C13: at most one generation request is in flight in every reachable
\* state, and no step adds a request while loading is true
C13_AtMostOneRequestInFlight ==
  [](Len(pending) <= 1)
  /\ [][ loading => Len(pending') <= Len(pending) ]_vars

\* C13 witness: the user reset the session while a request was pending and
\* the request is still the only one in flight
C13_Witness ==
  /\ Len(pending) = 1
  /\ loading
  /\ lastOp = "reset"

\* C14: a completed request (success or failure) leaves loading false and
\* nothing in flight, a request is only ever issued by the user's
\* handleGenerate, and that step clears the error message
C14_NoAutomaticRetry ==
  [](lastOp \in {"generateOk", "generateFail"} => (~loading /\ pending = <<>>))
  /\ [][ Len(pending') > Len(pending)
           => (lastOp' = "handleGenerate" /\ error' = NoError /\ loading') ]_vars

\* C14 witness: a request has just failed, the message is shown and control
\* is back with the user
C14_Witness ==
  /\ lastOp = "generateFail"
  /\ error # NoError
  /\ ~loading
  /\ pending = <<>>
  /\ currentStep = "form"

\* C15: in the validated variants a response whose questions list is
\* missing or empty is a failure: no such quiz is ever installed, and after
\* the failure the error is set, quiz is null, userAnswers is still empty
\* and the phase is form-entry
C15_EmptyResultSetIsFailure ==
  variant \in McqVariants =>
    /\ quiz # Null => (quiz.hasQuestions /\ Len(quiz.questions) >= 1)
    /\ lastOp = "generateFail" =>
         /\ error # NoError
         /\ quiz = Null
         /\ userAnswers = <<>>
         /\ currentStep = "form"

\* C15 witness: a validated variant has just rejected a response without
\* usable questions
C15_Witness ==
  /\ variant \in McqVariants
  /\ lastOp = "generateFail"
  /\ error = MsgNoQuestions

\* C16: recording value val for question i while the review flag is false
\* stores val at index i, keeps every other entry and the length, and
\* leaves score, phase, quiz, error and review flag unchanged
C16_AnswerOverwritesOnlyItsIndex ==
  [][ \A i \in 1..MaxQuestions :
        \A val \in UNION { AnswerInputs(variant, q) : q \in QuestionPool(variant) } :
          (HandleAnswer(i, val) /\ ~isReviewMode) =>
            /\ Len(userAnswers') = Len(userAnswers)
            /\ userAnswers'[i] = val
            /\ \A j \in 1..Len(userAnswers) : j # i => userAnswers'[j] = userAnswers[j]
            /\ UNCHANGED <<score, currentStep, quiz, error, isReviewMode>> ]_vars

\* C16 witness: on a two-question quiz one answer has been recorded and
\* the other entry is still the sentinel
C16_Witness ==
  /\ lastOp = "answer"
  /\ ~isReviewMode
  /\ Len(userAnswers) = 2
  /\ \E i, j \in 1..2 :
       /\ i # j
       /\ userAnswers[i] # Sentinel(variant)
       /\ userAnswers[j] = Sentinel(variant)

ValidCorrectIndex(v, q) ==
  IF v \in McqVariants THEN q.correctAnswer \in 0..3
  ELSE q.correctAnswer \in { toString(o) : o \in 0..3 }

\* C17: whenever a quiz is installed every multiple-choice question in it
\* has exactly 4 options and a correctAnswer that is an index 0..3
C17_McqQuestionsWellFormed ==
  (quiz # Null /\ quiz.hasQuestions) =>
    \A i \in 1..Len(quiz.questions) :
      quiz.questions[i].type = "mcq" =>
        /\ quiz.questions[i].nopts = 4
        /\ ValidCorrectIndex(variant, quiz.questions[i])

\* C18: whenever a quiz is installed (quiz non-null) it has a questions
\* list and userAnswers has that list's length
C18_AnswersMatchQuestionsLength ==
  quiz # Null =>
    /\ quiz.hasQuestions
    /\ Len(userAnswers) = Len(quiz.questions)

\* C19: the quiz variable changes only by being cleared by reset or by the
\* start of a generation, or by being replaced when a generation completes;
\* answering, submit, review and back-to-results leave it as it is
C19_QuizImmutableOnceInstalled ==
  [][ quiz' # quiz =>
        \/ quiz' = Null /\ lastOp' \in {"reset", "handleGenerate"}
        \/ lastOp' \in {"generateOk", "generateFail"} ]_vars

\* C19 witness: an installed quiz with questions has been answered,
\* submitted and reviewed
C19_Witness ==
  /\ lastOp = "review"
  /\ submitted
  /\ quiz # Null
  /\ Len(quiz.questions) >= 1
  /\ \E i \in 1..Len(userAnswers) : userAnswers[i] # Sentinel(variant)

\* the number of questions whose answer matches, by the variant's rule
MatchCount(v, q, answers) ==
  Cardinality({ i \in 1..Len(q.questions) :
    IF v \in McqVariants THEN answers[i] = q.questions[i].correctAnswer
    ELSE EqualIgnoringCaseAndOuterSpace(answers[i], q.questions[i].correctAnswer) })

\* C20: submit only records the score and moves the phase to result: it
\* leaves quiz, userAnswers, error, loading and topic unchanged, and the
\* score it records is determined by quiz and userAnswers alone
C20_SubmitOnlyScoresAndMovesPhase ==
  [][ lastOp' = "submit" =>
        /\ UNCHANGED <<quiz, userAnswers, error, loading, topic>>
        /\ currentStep' = "result"
        /\ score' = MatchCount(variant, quiz, userAnswers) ]_vars

\* C20 witness: a quiz on topic "a" has just been submitted with a
\* non-zero score
C20_Witness ==
  /\ lastOp = "submit"
  /\ currentStep = "result"
  /\ topic = <<"a">>
  /\ error = NoError
  /\ score >= 1

\* C21: in the mixed variant, submitting the three-question
\* multiple-choice quiz whose correct answers are "1", "0", "2" with the
\* recorded answers "1", "0", "3" stores score 2, and the percentage the
\* result screen shows for it is 67
C21_ExampleScoresTwoOfThree ==
  ( /\ lastOp = "submit"
    /\ variant = MixedVariant
    /\ quiz.questions = <<McqQuestion(1), McqQuestion(0), McqQuestion(2)>>
    /\ userAnswers = <<toString(1), toString(0), toString(3)>> )
  => /\ score = 2
     /\ RoundedPercent(score, Len(quiz.questions)) = 67

\* C21 witness: the example quiz has been submitted with the example
\* answers
C21_Witness ==
  /\ lastOp = "submit"
  /\ currentStep = "result"
  /\ topic = RomanEmpire
  /\ quiz.questions = <<McqQuestion(1), McqQuestion(0), McqQuestion(2)>>
  /\ userAnswers = <<toString(1), toString(0), toString(3)>>

\* C22: every request to the generative-AI service is issued by a
\* server-side function and no request the client sends carries the API key
C22_CredentialStaysOnServer ==
  \A k \in 1..Len(pending) :
    pending[k].issuedBy = "server" /\ ~pending[k].carriesApiKey

\* C23: a request issued before the most recent reset never installs a
\* quiz or moves the phase: when it completes the session is still in
\* form-entry with quiz null
C23_NoQuizFromRequestBeforeReset ==
  [][ \A k \in 1..Len(pending) :
        (pending[k].stale /\ pending' = RemoveAt(pending, k))
          => (currentStep' = "form" /\ quiz' = Null) ]_vars

\* C24: in the quiz-taking and result phases the installed quiz is
\* non-null and has at least one question (the percentage has a non-zero
\* divisor)
C24_QuizPhasesHaveQuestions ==
  currentStep \in {"quiz", "result"} =>
    (quiz # Null /\ quiz.hasQuestions /\ Len(quiz.questions) >= 1)

\* C25: in the result phase, and in quiz-taking with the review flag set,
\* the stored score is the number of questions of the installed quiz whose
\* stored answer the variant's comparison counts correct, and it lies
\* between 0 and the number of questions
C25_ScoreMatchesStoredAnswers ==
  (currentStep = "result" \/ (currentStep = "quiz" /\ isReviewMode)) =>
    /\ quiz # Null
    /\ score = MatchCount(variant, quiz, userAnswers)
    /\ 0 <= score
    /\ score <= Len(quiz.questions)

\* C25 witness: an answer was attempted during review of a quiz that was
\* scored with some but not all questions correct
C25_Witness ==
  /\ currentStep = "quiz"
  /\ isReviewMode
  /\ lastOp = "answer"
  /\ score >= 1
  /\ score < Len(quiz.questions)

\* C26: the topic shown with an installed quiz is the non-blank topic that
\* was sent in the request that produced it: it is that topic when the
\* quiz is installed and it does not change while the phase stays in
\* quiz-taking / result
C26_TopicIsRequestedTopic ==
  [][ /\ lastOp' = "generateOk" =>
           \E k \in 1..Len(pending) :
             /\ pending' = RemoveAt(pending, k)
             /\ topic' = pending[k].topic
             /\ trim(topic') # <<>>
      /\ (currentStep \in {"quiz", "result"} /\ currentStep' \in {"quiz", "result"})
           => topic' = topic ]_vars

\* C27: when a newly generated quiz has just been installed the review
\* flag is false, so an answer given for any of its questions is recorded
C27_NewQuizNotInReview ==
  lastOp = "generateOk" =>
    /\ ~isReviewMode
    /\ \A i \in 1..Len(userAnswers) :
         \A val \in AnswerInputs(variant, quiz.questions[i]) :
           RecordAnswer(isReviewMode, userAnswers, i, val)[i] = val

\* C27 witness: in the mixed variant a quiz was installed after an earlier
\* quiz had been scored (its reset keeps the score)
C27_Witness ==
  /\ lastOp = "generateOk"
  /\ variant = MixedVariant
  /\ score >= 1
  /\ Len(userAnswers) >= 1

\* C28: loading is true exactly while a generation request is in flight,
\* and while it is true the phase is form-entry and quiz is null
C28_LoadingIffRequestInFlight ==
  /\ loading <=> pending # <<>>
  /\ loading => (currentStep = "form" /\ quiz = Null)

\* C28 witness: a request is in flight, reset has run since it was issued
\* and the topic has been edited afterwards
C28_Witness ==
  /\ loading
  /\ pending # <<>>
  /\ pending[1].stale
  /\ lastOp = "setTopic"

\* C29: in the quiz-taking and result phases the error is null
C29_ErrorOnlyInForm ==
  currentStep \in {"quiz", "result"} => error = NoError

\* C29 witness: the result screen, returned to from review, with no error
C29_Witness ==
  /\ currentStep = "result"
  /\ lastOp = "back"
  /\ error = NoError

====
